---- MODULE Spec2Model ----
(***************************************************************************)
(* Model of workflow.py: the fetch cache, the index cache, the nested      *)
(* accession x assembly search loop and the cumulative report.             *)
(*                                                                         *)
(* Text (file names, accessions, file contents, report fields) is a        *)
(* sequence of one-character strings, so that strip, split, splitlines,    *)
(* the two regular expressions of sanitize_basename and Path.with_suffix   *)
(* are computed character by character as Python computes them.            *)
(***************************************************************************)
EXTENDS Integers, Sequences, FiniteSets, TLC

(***************************************************************************)
(* Bounds of the model: the lengths of the two input lists, the number of  *)
(* pairs, and the number of runs on one workdir.                           *)
(***************************************************************************)
MaxAcc == 2
MaxAsm == 2
MaxPairs == 4
MaxRuns == 2

(***************************************************************************)
(* Characters.                                                             *)
(***************************************************************************)
TAB == "\t"
NL == "\n"
UpperCase == <<"A","B","C","D","E","F","G","H","I","J","K","L","M",
               "N","O","P","Q","R","S","T","U","V","W","X","Y","Z">>
LowerCase == <<"a","b","c","d","e","f","g","h","i","j","k","l","m",
               "n","o","p","q","r","s","t","u","v","w","x","y","z">>
Digits == {"0","1","2","3","4","5","6","7","8","9"}
Range(s) == {s[i] : i \in DOMAIN s}

\* str.lower() on one character
Lower(c) ==
    IF \E i \in DOMAIN UpperCase : UpperCase[i] = c
    THEN LowerCase[CHOOSE i \in DOMAIN UpperCase : UpperCase[i] = c]
    ELSE c
LowerStr(s) == [i \in DOMAIN s |-> Lower(s[i])]

\* the characters str.strip() removes, among those of the model
IsSpace(c) == c \in {" ", TAB, NL}

(***************************************************************************)
(* Python str operations.                                                  *)
(***************************************************************************)
startswith(s, p) == Len(s) >= Len(p) /\ SubSeq(s, 1, Len(p)) = p
endswith(s, p) == Len(s) >= Len(p) /\ SubSeq(s, Len(s) - Len(p) + 1, Len(s)) = p
Contains(s, p) == \E i \in 1..(Len(s) - Len(p) + 1) : SubSeq(s, i, i + Len(p) - 1) = p

RECURSIVE lstrip(_)
lstrip(s) == IF s # <<>> /\ IsSpace(Head(s)) THEN lstrip(Tail(s)) ELSE s
RECURSIVE rstrip(_)
rstrip(s) ==
    IF s # <<>> /\ IsSpace(s[Len(s)]) THEN rstrip(SubSeq(s, 1, Len(s) - 1)) ELSE s
strip(s) == rstrip(lstrip(s))

\* s.split(sep) for a one-character separator: the pieces between the
\* separators, empty pieces included; "".split(sep) is [""]
RECURSIVE split(_, _)
split(s, sep) ==
    IF \E i \in DOMAIN s : s[i] = sep
    THEN LET i == CHOOSE k \in DOMAIN s : s[k] = sep /\ \A m \in 1..(k - 1) : s[m] # sep
         IN  <<SubSeq(s, 1, i - 1)>> \o split(SubSeq(s, i + 1, Len(s)), sep)
    ELSE <<s>>

\* s.splitlines(): the lines without their terminator; no empty last line
\* after a final terminator, and "".splitlines() is []
splitlines(s) ==
    IF s = <<>> THEN <<>>
    ELSE IF s[Len(s)] = NL THEN split(SubSeq(s, 1, Len(s) - 1), NL)
    ELSE split(s, NL)

\* sep.join(items)
RECURSIVE join(_, _)
join(items, sep) ==
    IF items = <<>> THEN <<>>
    ELSE IF Len(items) = 1 THEN items[1]
    ELSE items[1] \o sep \o join(Tail(items), sep)

RECURSIVE Flatten(_)
Flatten(ss) == IF ss = <<>> THEN <<>> ELSE Head(ss) \o Flatten(Tail(ss))

(***************************************************************************)
(* workflow.py:11  the field layout requested from the search tool.        *)
(***************************************************************************)
OUTFMT_COLUMNS == <<
    <<"q","s","e","q","i","d">>,
    <<"s","s","e","q","i","d">>,
    <<"p","i","d","e","n","t">>,
    <<"l","e","n","g","t","h">>,
    <<"q","s","t","a","r","t">>,
    <<"q","e","n","d">>,
    <<"s","s","t","a","r","t">>,
    <<"s","e","n","d">>,
    <<"e","v","a","l","u","e">>,
    <<"b","i","t","s","c","o","r","e">>,
    <<"q","l","e","n">> >>

(***************************************************************************)
(* workflow.py:33  split_commas                                            *)
(***************************************************************************)
split_commas(values) ==
    Flatten([i \in DOMAIN values |->
        LET parts == split(values[i], ",")
            kept == SelectSeq(parts, LAMBDA p : strip(p) # <<>>)
        IN  [k \in DOMAIN kept |-> strip(kept[k])]])

(***************************************************************************)
(* workflow.py:39  read_list_files.  A list file is [exists, text].        *)
(* The function raises FileNotFoundError at the first missing file.        *)
(***************************************************************************)
read_list_files_raises(files) == \E i \in DOMAIN files : ~files[i].exists

read_list_files(files) ==
    Flatten([i \in DOMAIN files |->
        LET lines == splitlines(files[i].text)
            stripped == [k \in DOMAIN lines |-> strip(lines[k])]
        IN  SelectSeq(stripped, LAMBDA s : ~(s = <<>> \/ startswith(s, <<"#">>))) ])

(***************************************************************************)
(* pathlib: Path(p).name, Path(p).resolve(), PurePath.suffix and           *)
(* PurePath.with_suffix, on the name of the path.                          *)
(***************************************************************************)
Cwd == <<"/","d","/">>

\* the final path component
RECURSIVE PathName(_)
PathName(p) ==
    IF \E i \in DOMAIN p : p[i] = "/"
    THEN PathName(SubSeq(p, 1 + (CHOOSE k \in DOMAIN p : p[k] = "/"), Len(p)))
    ELSE p

\* an absolute path stays, a relative one is joined to the working directory
\* (the paths of the model hold no "..", no "." component and no symlink)
Resolve(p) == IF startswith(p, <<"/">>) THEN p ELSE Cwd \o p

\* 1-based str.rfind("."), 0 when there is none
RFindDot(name) ==
    IF \E i \in DOMAIN name : name[i] = "."
    THEN CHOOSE i \in DOMAIN name :
            name[i] = "." /\ \A k \in (i + 1)..Len(name) : name[k] # "."
    ELSE 0

\* PurePath.suffix: name[i:] when 0 < i < len(name) - 1 (0-based i), else ""
Suffix(name) ==
    LET i == RFindDot(name)
    IN  IF 1 < i /\ i < Len(name) THEN SubSeq(name, i, Len(name)) ELSE <<>>

\* PurePath.with_suffix(suffix): the last suffix of the name is REPLACED when
\* the name has one, and the suffix is appended only when it has none
with_suffix(name, suffix) ==
    IF Suffix(name) = <<>> THEN name \o suffix
    ELSE SubSeq(name, 1, Len(name) - Len(Suffix(name))) \o suffix

(***************************************************************************)
(* workflow.py:52  sanitize_basename                                       *)
(***************************************************************************)
SeqExts == { <<".","f","a">>, <<".","f","n","a">>,
             <<".","f","a","s","t","a">>, <<".","f","a","s">> }
GzExt == <<".","g","z">>

\* the match of \.(fa|fna|fasta|fas)(\.gz)? that ends where the text ends,
\* removed; the leftmost one is taken, so an extension followed by .gz goes
\* with the .gz
StripAtEnd(name) ==
    LET low == LowerStr(name)
    IN  IF \E e \in SeqExts : endswith(low, e \o GzExt)
        THEN LET e == CHOOSE x \in SeqExts : endswith(low, x \o GzExt)
             IN  SubSeq(name, 1, Len(name) - Len(e) - Len(GzExt))
        ELSE IF \E e \in SeqExts : endswith(low, e)
        THEN LET e == CHOOSE x \in SeqExts : endswith(low, x)
             IN  SubSeq(name, 1, Len(name) - Len(e))
        ELSE name

\* re.sub(r"\.(fa|fna|fasta|fas)(\.gz)?$", "", name, flags=re.IGNORECASE):
\* "$" matches at the end of the name and also just before a newline that
\* is the last character of the name; a match cannot hold that newline, so
\* in a name that ends with a newline the match ends before it and the
\* newline stays
StripSeqSuffix(name) ==
    IF name # <<>> /\ name[Len(name)] = NL
    THEN StripAtEnd(SubSeq(name, 1, Len(name) - 1)) \o <<NL>>
    ELSE StripAtEnd(name)

SafeChars == Range(UpperCase) \cup Range(LowerCase) \cup Digits \cup {".", "_", "-"}

\* re.sub(r"[^A-Za-z0-9._-]+", "_", name)
RECURSIVE DropUnsafe(_)
DropUnsafe(s) == IF s # <<>> /\ Head(s) \notin SafeChars THEN DropUnsafe(Tail(s)) ELSE s
RECURSIVE ReplaceUnsafe(_)
ReplaceUnsafe(s) ==
    IF s = <<>> THEN <<>>
    ELSE IF Head(s) \in SafeChars THEN <<Head(s)>> \o ReplaceUnsafe(Tail(s))
    ELSE <<"_">> \o ReplaceUnsafe(DropUnsafe(s))

\* sanitize_basename applied to the whole path
sanitize_basename_whole_path(path_str) == ReplaceUnsafe(StripSeqSuffix(path_str))

sanitize_basename(path_str) == ReplaceUnsafe(StripSeqSuffix(PathName(path_str)))

(***************************************************************************)
(* Files.  A directory is a function from the names of its files to their  *)
(* contents; a file of size 0 has the content <<>>.                        *)
(***************************************************************************)
NoFiles == [n \in {} |-> <<>>]
Exists(dir, name) == name \in DOMAIN dir
NonEmptyFile(dir, name) == Exists(dir, name) /\ dir[name] # <<>>
WriteFile(dir, name, content) ==
    [n \in DOMAIN dir \cup {name} |-> IF n = name THEN content ELSE dir[n]]

\* workflow.py:60  queries_dir / f"{accession}.fasta"
FastaName(accession) == accession \o <<".","f","a","s","t","a">>

\* the index prefix made of the file name as it is
DbPrefix_unsanitized(asm_path) == PathName(asm_path) \o <<"_","a","s","m","_","d","b">>

\* workflow.py:165  db_dir / f"{asm_name}_asm_db"
DbPrefix(asm_path) == sanitize_basename(asm_path) \o <<"_","a","s","m","_","d","b">>

\* the label without the accession
Comparison_without_accession(acc, asm_path) ==
    <<"v","s","_">> \o sanitize_basename(asm_path) \o <<"_","a","s","m","_","d","b">>

\* workflow.py:180  f"{acc}_vs_{asm_name}_asm_db"
Comparison(acc, asm_path) ==
    acc \o <<"_","v","s","_">> \o sanitize_basename(asm_path)
        \o <<"_","a","s","m","_","d","b">>

\* workflow.py:183  tmp_dir / f"{comparison}.tsv"
TmpName(comparison) == comparison \o <<".","t","s","v">>

DbExts == << <<".","n","h","r">>, <<".","n","i","n">>, <<".","n","s","q">> >>

(***************************************************************************)
(* workflow.py:75  db_exists                                               *)
(***************************************************************************)
db_exists(dir, db_prefix) ==
    LET needed == [k \in DOMAIN DbExts |-> with_suffix(db_prefix, DbExts[k])]
    IN  \A k \in DOMAIN needed : NonEmptyFile(dir, needed[k])

(***************************************************************************)
(* The collaborators (workflow.py:16 run, workflow.py:24 shell_out run     *)
(* them and raise on a non-zero return code).                              *)
(***************************************************************************)
\* run never raising, whatever the return code
run_ignoring_return_code(rc) == FALSE
run_raises(rc) == rc # 0
shell_out_raises(rc) == rc # 0

\* get_ref.sh <accession>: fails, or prints some text: nothing, text that is
\* no FASTA, or a FASTA record of the accession
FetchResults(accession) ==
    {[rc |-> 1, stdout |-> <<>>]}
        \cup {[rc |-> 0, stdout |-> c] : c \in {<<>>, <<"x">>, <<">">> \o accession}}

\* makeblastdb -in <assembly> -out <prefix>: on success it creates the three
\* non-empty files <prefix>.nhr, <prefix>.nin, <prefix>.nsq (the extension is
\* appended to the prefix as given), whose content comes from the assembly;
\* a failing build leaves nothing or leaves a part of the index behind
BuildResults == {"ok", "fail", "failPartial"}
BuildRc(kind) == IF kind = "ok" THEN 0 ELSE 1
IndexFile(db_prefix, k) == db_prefix \o DbExts[k]
makeblastdb(dir, asm_path, db_prefix, kind) ==
    LET made == CASE kind = "ok" -> DOMAIN DbExts
                  [] kind = "failPartial" -> {1}
                  [] OTHER -> {}
        names == {IndexFile(db_prefix, k) : k \in made}
    IN  [n \in DOMAIN dir \cup names |-> IF n \in names THEN asm_path ELSE dir[n]]

\* the index blastn reads for -db <prefix>: the three files of that prefix
IndexPresent(dir, db_prefix) ==
    \A k \in DOMAIN DbExts : NonEmptyFile(dir, IndexFile(db_prefix, k))
IndexContent(dir, db_prefix) == [k \in DOMAIN DbExts |-> dir[IndexFile(db_prefix, k)]]

\* A search tool is described by what it does without a match (it leaves no
\* output file, writes an empty one, or writes blank lines only) and by the
\* number of fields of the records it writes.
ToolPool ==
    { [miss |-> "nofile", width |-> 11], [miss |-> "empty", width |-> 11],
      [miss |-> "blank", width |-> 13] }

Record(c, width) == join([k \in 1..width |-> <<c>>], <<TAB>>)
HitContent(width) ==
    Record("p", width) \o <<NL>> \o <<" ">> \o <<NL>> \o Record("q", width) \o <<NL>>
BlankContent == <<" ", NL, NL>>

\* blastn -query <q> -db <prefix> -out <out_tsv>, succeeding with verdict v
blastn(dir, out_tsv, v, t) ==
    CASE v = "hit" -> WriteFile(dir, out_tsv, HitContent(t.width))
      [] v = "miss" /\ t.miss = "empty" -> WriteFile(dir, out_tsv, <<>>)
      [] v = "miss" /\ t.miss = "blank" -> WriteFile(dir, out_tsv, BlankContent)
      [] OTHER -> dir

\* ensure_fasta_download writing the download before it has looked at it
ensure_fasta_download_write_first(dir, accession, res) ==
    IF NonEmptyFile(dir, FastaName(accession))
    THEN [queries |-> dir, invoked |-> FALSE, raised |-> FALSE]
    ELSE IF shell_out_raises(res.rc)
    THEN [queries |-> dir, invoked |-> TRUE, raised |-> TRUE]
    ELSE [queries |-> WriteFile(dir, FastaName(accession), res.stdout),
          invoked |-> TRUE, raised |-> ~startswith(res.stdout, <<">">>)]

\* ensure_fasta_download without the cache test
ensure_fasta_download_no_cache(dir, accession, res) ==
    IF shell_out_raises(res.rc)
    THEN [queries |-> dir, invoked |-> TRUE, raised |-> TRUE]
    ELSE IF ~startswith(res.stdout, <<">">>)
    THEN [queries |-> dir, invoked |-> TRUE, raised |-> TRUE]
    ELSE [queries |-> WriteFile(dir, FastaName(accession), res.stdout),
          invoked |-> TRUE, raised |-> FALSE]

(***************************************************************************)
(* workflow.py:58  ensure_fasta_download, given the result the fetch       *)
(* collaborator would return: the queries directory afterwards, whether    *)
(* the collaborator was invoked and whether the function raised.           *)
(***************************************************************************)
ensure_fasta_download(dir, accession, res) ==
    IF NonEmptyFile(dir, FastaName(accession))
    THEN [queries |-> dir, invoked |-> FALSE, raised |-> FALSE]
    ELSE IF shell_out_raises(res.rc)
    THEN [queries |-> dir, invoked |-> TRUE, raised |-> TRUE]
    ELSE IF ~startswith(res.stdout, <<">">>)
    THEN [queries |-> dir, invoked |-> TRUE, raised |-> TRUE]
    ELSE [queries |-> WriteFile(dir, FastaName(accession), res.stdout),
          invoked |-> TRUE, raised |-> FALSE]

(***************************************************************************)
(* workflow.py:81  make_db_if_needed, given what the build would do.       *)
(***************************************************************************)
make_db_if_needed(dir, asm_path, db_prefix, kind) ==
    IF db_exists(dir, db_prefix)
    THEN [blastdb |-> dir, invoked |-> FALSE, raised |-> FALSE]
    ELSE [blastdb |-> makeblastdb(dir, asm_path, db_prefix, kind),
          invoked |-> TRUE, raised |-> run_raises(BuildRc(kind))]

(***************************************************************************)
(* workflow.py:170  header;  workflow.py:187-194  the rows of one pair.    *)
(***************************************************************************)
header == << <<"c","o","m","p","a","r","i","s","o","n">> >> \o OUTFMT_COLUMNS

\* the rows of one pair with a placeholder one field short
pair_rows_short_placeholder(dir, comparison) ==
    LET tmp_out == TmpName(comparison)
    IN  IF NonEmptyFile(dir, tmp_out)
        THEN LET lines == SelectSeq(splitlines(dir[tmp_out]), LAMBDA l : strip(l) # <<>>)
             IN  [k \in DOMAIN lines |-> <<comparison>> \o split(lines[k], TAB)]
        ELSE << <<comparison>> \o [k \in DOMAIN Tail(OUTFMT_COLUMNS) |-> <<>>] >>

\* the rows of one pair with the lines of the result file taken last first
pair_rows_last_line_first(dir, comparison) ==
    LET tmp_out == TmpName(comparison)
    IN  IF NonEmptyFile(dir, tmp_out)
        THEN LET lines == SelectSeq(splitlines(dir[tmp_out]), LAMBDA l : strip(l) # <<>>)
             IN  [k \in DOMAIN lines |->
                    <<comparison>> \o split(lines[Len(lines) + 1 - k], TAB)]
        ELSE << <<comparison>> \o [k \in DOMAIN OUTFMT_COLUMNS |-> <<>>] >>

pair_rows(dir, comparison) ==
    LET tmp_out == TmpName(comparison)
    IN  IF NonEmptyFile(dir, tmp_out)
        THEN LET lines == SelectSeq(splitlines(dir[tmp_out]), LAMBDA l : strip(l) # <<>>)
             IN  [k \in DOMAIN lines |-> <<comparison>> \o split(lines[k], TAB)]
        ELSE << <<comparison>> \o [k \in DOMAIN OUTFMT_COLUMNS |-> <<>>] >>

(***************************************************************************)
(* State.                                                                  *)
(***************************************************************************)
VARIABLES
    args,              \* the parsed command line (workflow.py:130)
    tool,              \* the search tool in use
    memo,              \* what the search tool answered so far, per (query, index)
    queries,           \* <workdir>/queries
    blastdb,           \* <workdir>/blastdb
    tmp,               \* <workdir>/tmp
    report,            \* <outdir>/<output>: [exists, rows]
    pc,                \* where main() is: start, fetch, build, open, search, done
    outcome,           \* running, ok, or the kind of the error that ended the run
    accessions,        \* main's local: the normalized accession list
    assemblies_paths,  \* main's local: the resolved assembly paths
    ai,                \* index of the accession loops
    mi,                \* index of the assembly loops
    run,               \* number of the current run on this workdir
    calls,             \* history: the collaborator invocations of this run
    pairs,             \* history: the pairs aggregated in this run, each with its
                       \* rows, the text of its result file as it was read and
                       \* the index files its search was given
    queries0,          \* history: <workdir>/queries when this run started
    report0,           \* history: the report when this run started
    everHit,           \* history: some result file has held a match record
    fetchlog,          \* history: the fetch invocations of all the runs
    san                \* sanitize_basename on its own: its argument and its result

progVars == <<args, tool, memo, queries, blastdb, tmp, report, pc, outcome,
              accessions, assemblies_paths, ai, mi, run, calls, pairs, queries0,
              report0, everHit, fetchlog>>
vars == <<progVars, san>>

(***************************************************************************)
(* The inputs and the workdirs the runs start from.                        *)
(***************************************************************************)
AccPool == { <<"a">>, <<"a","_","v","s">> }

AsmPool == { <<"/","d","/","b",".","f","a">>,
             <<"/","e","/","b",".","F","N","A",".","g","z">>,
             <<"/","e","/","b",".","f","a">>,
             <<"/","d","/","v","s"," ","b",".","f","a">>,
             <<"/","d","/","b",".","v","1",".","f","a">>,
             <<"n","o",".","f","a">> }

\* the assembly files that exist
ExistingPaths == { <<"/","d","/","b",".","f","a">>,
                   <<"/","e","/","b",".","F","N","A",".","g","z">>,
                   <<"/","e","/","b",".","f","a">>,
                   <<"/","d","/","v","s"," ","b",".","f","a">>,
                   <<"/","d","/","b",".","v","1",".","f","a">> }

BoundedSeq(S, n) == UNION {[1..k -> S] : k \in 0..n}

\* a list file holding the items, after a comment line and a blank line
ListFileText(items) ==
    Flatten([k \in 1..(Len(items) + 2) |->
        IF k = 1 THEN <<"#", " ", "c", NL>>
        ELSE IF k = 2 THEN <<NL>>
        ELSE <<" ">> \o items[k - 2] \o <<" ", NL>>])

MissingFile == [exists |-> FALSE, text |-> <<>>]
Forms == {"allFound", "noAssemblyFile", "noAccessionFile"}

\* the command line: the assemblies as one comma-separated -a value; the
\* first accession as a -i value and the other ones in a list file; in two
\* of the forms a list file that does not exist is named too
ArgsOf(form, accItems, asmItems) ==
    [ assembly |-> << join(asmItems, <<",", " ">>) >>,
      assembly_file |-> IF form = "noAssemblyFile" THEN <<MissingFile>> ELSE <<>>,
      accession |-> IF accItems = <<>> THEN <<>> ELSE << Head(accItems) >>,
      accession_file |->
          << [exists |-> TRUE,
              text |-> ListFileText(IF accItems = <<>> THEN <<>> ELSE Tail(accItems))] >>
            \o IF form = "noAccessionFile" THEN <<MissingFile>> ELSE <<>> ]

\* sanitize_basename is not under study on its own
NotCalled == [dir |-> <<>>, name |-> <<>>, called |-> FALSE, asm_name |-> <<>>]

Old == <<"o","l","d">>
NoReport == [exists |-> FALSE, rows |-> <<>>]

EmptyWorkdir ==
    [queries |-> NoFiles, blastdb |-> NoFiles, tmp |-> NoFiles, report |-> NoReport,
     everHit |-> FALSE]

\* a workdir earlier runs have used: a cached query that is no FASTA, an
\* empty cached query, an index with one file missing, a complete index, a
\* result file with match records, and a report
UsedWorkdir(t) ==
    [queries |-> (FastaName(<<"a">>) :> <<"x">>)
                    @@ (FastaName(<<"a","_","v","s">>) :> <<>>),
     blastdb |-> (<<"b","_","a","s","m","_","d","b",".","n","h","r">> :> Old)
                    @@ (<<"b","_","a","s","m","_","d","b",".","n","i","n">> :> Old)
                    @@ [n \in {IndexFile(<<"v","s","_","b","_","a","s","m","_","d","b">>, k) :
                                  k \in DOMAIN DbExts} |-> Old],
     tmp |-> (TmpName(<<"a","_","v","s","_","b","_","a","s","m","_","d","b">>)
                    :> HitContent(t.width)),
     report |-> [exists |-> TRUE,
                 rows |-> <<header, <<Old>> \o [k \in DOMAIN OUTFMT_COLUMNS |-> <<>>]>>],
     everHit |-> TRUE]

Workdirs(t) == {EmptyWorkdir, UsedWorkdir(t)}

Init ==
    \E accItems \in BoundedSeq(AccPool, MaxAcc), asmItems \in BoundedSeq(AsmPool, MaxAsm),
       form \in Forms, t \in ToolPool :
      \E w \in Workdirs(t) :
        /\ Len(accItems) * Len(asmItems) <= MaxPairs
        /\ args = ArgsOf(form, accItems, asmItems)
        /\ tool = t
        /\ memo = NoFiles
        /\ queries = w.queries
        /\ blastdb = w.blastdb
        /\ tmp = w.tmp
        /\ report = w.report
        /\ everHit = w.everHit
        /\ pc = "start"
        /\ outcome = "running"
        /\ accessions = <<>>
        /\ assemblies_paths = <<>>
        /\ ai = 1
        /\ mi = 1
        /\ run = 1
        /\ calls = <<>>
        /\ pairs = <<>>
        /\ queries0 = w.queries
        /\ report0 = w.report
        /\ fetchlog = <<>>
        /\ san = NotCalled

(***************************************************************************)
(* workflow.py:132-144  the input checks of main.                          *)
(***************************************************************************)
NormAssemblies(a) == split_commas(a.assembly) \o read_list_files(a.assembly_file)
NormAccessions(a) == split_commas(a.accession) \o read_list_files(a.accession_file)
ResolveAll(paths) == [k \in DOMAIN paths |-> Resolve(paths[k])]

\* the input checks without the existence check of workflow.py:142-144
main_input_error_no_exists_check(a) ==
    \/ read_list_files_raises(a.assembly_file)
    \/ read_list_files_raises(a.accession_file)
    \/ NormAssemblies(a) = <<>>
    \/ NormAccessions(a) = <<>>

main_input_error(a) ==
    \/ read_list_files_raises(a.assembly_file)
    \/ read_list_files_raises(a.accession_file)
    \/ NormAssemblies(a) = <<>>
    \/ NormAccessions(a) = <<>>
    \/ \E p \in Range(ResolveAll(NormAssemblies(a))) : p \notin ExistingPaths

\* a collaborator invocation: the tool, its input, the index prefix it is
\* given, its output on stdout and whether it returned 0
Call(t, arg, db, out, ok) == [tool |-> t, arg |-> arg, db |-> db, out |-> out, ok |-> ok]
Ended(kind) == pc' = "done" /\ outcome' = kind

\* workflow.py:132-144, an input error: the exception leaves main
MainInputError ==
    /\ pc = "start"
    /\ main_input_error(args)
    /\ Ended("InputError")
    /\ UNCHANGED <<san, fetchlog, args, tool, memo, queries, blastdb, tmp,
                   report, accessions, assemblies_paths, ai, mi, run, calls,
                   pairs, queries0, report0, everHit>>

\* workflow.py:132-154, the inputs are accepted
MainInputsOk ==
    /\ pc = "start"
    /\ ~main_input_error(args)
    /\ accessions' = NormAccessions(args)
    /\ assemblies_paths' = ResolveAll(NormAssemblies(args))
    /\ pc' = "fetch"
    /\ ai' = 1
    /\ UNCHANGED <<san, fetchlog, args, tool, memo, queries, blastdb, tmp,
                   report, outcome, mi, run, calls, pairs, queries0, report0,
                   everHit>>

\* workflow.py:158-159, one iteration: ensure_fasta_download(accessions[ai])
FetchStep ==
    /\ pc = "fetch"
    /\ \E res \in FetchResults(accessions[ai]) :
         LET r == ensure_fasta_download(queries, accessions[ai], res)
         IN  /\ queries' = r.queries
             /\ calls' = IF r.invoked
                         THEN Append(calls, Call("fetch", accessions[ai], <<>>, res.stdout,
                                            res.rc = 0))
                         ELSE calls
             /\ fetchlog' = IF r.invoked
                            THEN Append(fetchlog, Call("fetch", accessions[ai], <<>>,
                                                       res.stdout, res.rc = 0))
                            ELSE fetchlog
             /\ IF r.raised
                THEN Ended("FetchError") /\ UNCHANGED <<ai, mi>>
                ELSE /\ outcome' = outcome
                     /\ IF ai < Len(accessions)
                        THEN pc' = "fetch" /\ ai' = ai + 1 /\ mi' = mi
                        ELSE pc' = "build" /\ ai' = ai /\ mi' = 1
    /\ UNCHANGED <<san, args, tool, memo, blastdb, tmp, report, accessions,
                   assemblies_paths, run, pairs, queries0, report0, everHit>>

\* workflow.py:163-167, one iteration: make_db_if_needed(assemblies_paths[mi])
BuildStep ==
    /\ pc = "build"
    /\ \E kind \in BuildResults :
         LET asm_path == assemblies_paths[mi]
             r == make_db_if_needed(blastdb, asm_path, DbPrefix(asm_path), kind)
         IN  /\ blastdb' = r.blastdb
             /\ calls' = IF r.invoked
                         THEN Append(calls, Call("build", asm_path, DbPrefix(asm_path),
                                                 <<>>, kind = "ok"))
                         ELSE calls
             /\ IF r.raised
                THEN Ended("IndexBuildError") /\ mi' = mi
                ELSE /\ outcome' = outcome
                     /\ IF mi < Len(assemblies_paths)
                        THEN pc' = "build" /\ mi' = mi + 1
                        ELSE pc' = "open" /\ mi' = mi
    /\ UNCHANGED <<san, fetchlog, args, tool, memo, queries, tmp, report,
                   accessions, assemblies_paths, ai, run, pairs, queries0,
                   report0, everHit>>

\* workflow.py:172-174: the report is opened for writing, which truncates
\* it, and the header row is written
OpenReport ==
    /\ pc = "open"
    /\ report' = [exists |-> TRUE, rows |-> <<header>>]
    /\ pc' = "search"
    /\ ai' = 1
    /\ mi' = 1
    /\ UNCHANGED <<san, fetchlog, args, tool, memo, queries, blastdb, tmp,
                   outcome, accessions, assemblies_paths, run, calls, pairs,
                   queries0, report0, everHit>>

\* what the search tool can answer: it fails, or (when the index it is given
\* is there) it succeeds with a verdict that is a function of the content of
\* the query and of the index
SearchKey(acc, db_prefix) == <<queries[FastaName(acc)], IndexContent(blastdb, db_prefix)>>
SearchResults(acc, db_prefix) ==
    {[rc |-> 1, v |-> "none"]}
        \cup IF IndexPresent(blastdb, db_prefix)
             THEN LET key == SearchKey(acc, db_prefix)
                  IN  {[rc |-> 0, v |-> v] :
                         v \in IF key \in DOMAIN memo THEN {memo[key]} ELSE {"hit", "miss"}}
             ELSE {}

\* workflow.py:94  blast_one
blast_one(dir, out_tsv, res, t) ==
    [tmp |-> IF res.rc = 0 THEN blastn(dir, out_tsv, res.v, t) ELSE dir,
     raised |-> run_raises(res.rc)]

\* workflow.py:176-194, one iteration of the inner loop: the search of the
\* pair (accessions[ai], assemblies_paths[mi]) and its rows; leaving the
\* with block closes the report, after the last pair or on an exception
SearchStep ==
    /\ pc = "search"
    /\ LET acc == accessions[ai]
           asm_path == assemblies_paths[mi]
           comparison == Comparison(acc, asm_path)
           db_prefix == DbPrefix(asm_path)
       IN  \E res \in SearchResults(acc, db_prefix) :
             LET r == blast_one(tmp, TmpName(comparison), res, tool)
                 rows == pair_rows(r.tmp, comparison)
             IN  /\ tmp' = r.tmp
                 /\ calls' = Append(calls, Call("search", FastaName(acc), db_prefix,
                                                <<>>, res.rc = 0))
                 /\ IF r.raised
                    THEN /\ Ended("SearchError")
                         /\ UNCHANGED <<report, pairs, memo, everHit, ai, mi>>
                    ELSE /\ report' = [report EXCEPT !.rows = @ \o rows]
                         /\ pairs' = Append(pairs,
                                [i |-> ai, j |-> mi, rows |-> rows,
                                 wrote |-> res.v = "hit" \/ tool.miss # "nofile",
                                 text |-> IF Exists(r.tmp, TmpName(comparison))
                                          THEN r.tmp[TmpName(comparison)] ELSE <<>>,
                                 index |-> IndexContent(blastdb, db_prefix)])
                         /\ memo' = WriteFile(memo, SearchKey(acc, db_prefix), res.v)
                         /\ everHit' = (everHit \/ res.v = "hit")
                         /\ IF mi < Len(assemblies_paths)
                            THEN mi' = mi + 1 /\ UNCHANGED <<ai, pc, outcome>>
                            ELSE IF ai < Len(accessions)
                            THEN ai' = ai + 1 /\ mi' = 1 /\ UNCHANGED <<pc, outcome>>
                            ELSE Ended("ok") /\ UNCHANGED <<ai, mi>>
    /\ UNCHANGED <<san, fetchlog, args, tool, queries, blastdb, accessions,
                   assemblies_paths, run, queries0, report0>>

\* after a run that completed, the program is run again, with the same
\* command line, on the same workdir and outdir (what runs that failed
\* leave behind is in the workdirs the first run starts from)
StartRun ==
    /\ pc = "done"
    /\ outcome = "ok"
    /\ run < MaxRuns
    /\ run' = run + 1
    /\ pc' = "start"
    /\ outcome' = "running"
    /\ accessions' = <<>>
    /\ assemblies_paths' = <<>>
    /\ ai' = 1
    /\ mi' = 1
    /\ calls' = <<>>
    /\ pairs' = <<>>
    /\ queries0' = queries
    /\ report0' = report
    /\ UNCHANGED <<san, fetchlog, args, tool, memo, queries, blastdb, tmp,
                   report, everHit>>

Next ==
    \/ MainInputError
    \/ MainInputsOk
    \/ FetchStep
    \/ BuildStep
    \/ OpenReport
    \/ SearchStep
    \/ StartRun

Spec == Init /\ [][Next]_vars

(***************************************************************************)
(* sanitize_basename on its own (workflow.py:52): the function applied to  *)
(* one resolved path.  The directories, the stems and the endings of the   *)
(* file names; a name with a space or a newline at its end is the name of  *)
(* the target of a symbolic link, which Path.resolve() (workflow.py:141)   *)
(* puts in the place of the link.                                          *)
(***************************************************************************)
SanDirs == { <<"/","d","/">>,
             <<"/","e","/","x"," ","y","/">>,
             <<"/">> }
SanStems == { <<"b">>,
              <<"v","s"," "," ","b">>,
              <<"b",".","v","1">>,
              <<>>,
              <<"B","-","2","_">>,
              <<"?","b","!">> }
SanEndings == { <<>>,
                <<".","f","a">>,
                <<".","F","N","A",".","g","z">>,
                <<".","f","a","s","t","a">>,
                <<".","f","a","s",".","G","Z">>,
                <<".","g","z">>,
                <<".","f","a",".","f","a">>,
                <<".","f","a","\n">>,
                <<".","f","a"," ">> }

SanInit ==
    /\ \E d \in SanDirs, st \in SanStems, e \in SanEndings :
          san = [dir |-> d, name |-> st \o e, called |-> FALSE, asm_name |-> <<>>]
    /\ args = ArgsOf("allFound", <<>>, <<>>)
    /\ tool = [miss |-> "nofile", width |-> 11]
    /\ memo = NoFiles
    /\ queries = NoFiles
    /\ blastdb = NoFiles
    /\ tmp = NoFiles
    /\ report = NoReport
    /\ everHit = FALSE
    /\ pc = "start"
    /\ outcome = "running"
    /\ accessions = <<>>
    /\ assemblies_paths = <<>>
    /\ ai = 1
    /\ mi = 1
    /\ run = 1
    /\ calls = <<>>
    /\ pairs = <<>>
    /\ queries0 = NoFiles
    /\ report0 = NoReport
    /\ fetchlog = <<>>

\* workflow.py:164  asm_name = sanitize_basename(str(asm_path))
Sanitize ==
    /\ ~san.called
    /\ san' = [san EXCEPT !.called = TRUE,
                          !.asm_name = sanitize_basename(san.dir \o san.name)]
    /\ UNCHANGED progVars

SanNext == Sanitize

SanSpec == SanInit /\ [][SanNext]_vars

(***************************************************************************)
(* Vocabulary of the properties.                                           *)
(***************************************************************************)
RunOk == pc = "done" /\ outcome = "ok"
PairPositions == {<<i, j>> : i \in DOMAIN accessions, j \in DOMAIN assemblies_paths}
PairCount == Len(accessions) * Len(assemblies_paths)

\* "{A[i]}_vs_{sanitize(M[j])}_asm_db"
IdentityLabel(i, j) ==
    accessions[i] \o <<"_","v","s","_">> \o sanitize_basename(assemblies_paths[j])
        \o <<"_","a","s","m","_","d","b">>

Empties(n) == [k \in 1..n |-> <<>>]
Placeholder(i, j) == <<IdentityLabel(i, j)>> \o Empties(11)

\* the rows of the report after the header
DataRows == IF report.rows = <<>> THEN <<>> ELSE Tail(report.rows)

CallsOf(t) == SelectSeq(calls, LAMBDA c : c.tool = t)

\* the report has been opened for writing in this run
ReportOpened == pc = "search" \/ (pc = "done" /\ outcome \in {"ok", "SearchError"})

(***************************************************************************)
(* C1.  In a run that completes successfully every pair position (i, j)    *)
(* has at least one data row carrying its identity label, and the report   *)
(* has at least |A| x |M| data rows, whatever the pair's result file       *)
(* holds after the search.                                                 *)
(* The code writes no row at all for a result file that is not empty but   *)
(* holds blank lines only.                                                 *)
(***************************************************************************)
C1_AtLeastOneRowPerPair ==
    RunOk =>
        /\ \A pos \in PairPositions :
             \E k \in DOMAIN DataRows : DataRows[k][1] = IdentityLabel(pos[1], pos[2])
        /\ Len(DataRows) >= PairCount

(***************************************************************************)
(* C2.  A pair whose search succeeds without producing an output file      *)
(* gets exactly one row, its identity label followed by 11 empty fields,   *)
(* whatever the scratch directory holds.                                   *)
(* The code reads a result file of that name left by an earlier search.    *)
(***************************************************************************)
C2_NoOutputFileGivesPlaceholder ==
    \A k \in DOMAIN pairs :
        ~pairs[k].wrote => pairs[k].rows = <<Placeholder(pairs[k].i, pairs[k].j)>>

(***************************************************************************)
(* C3.  The report is opened and written only after the search has         *)
(* succeeded for every pair, and a failed search leaves no rows of other   *)
(* pairs in it.                                                            *)
(* The code opens the report and writes the header before the first        *)
(* search, and writes each pair's rows right after that pair's search.     *)
(***************************************************************************)
C3_ReportWrittenAfterAllSearches ==
    /\ ReportOpened =>
         Len(SelectSeq(CallsOf("search"), LAMBDA c : c.ok)) = PairCount
    /\ outcome = "SearchError" =>
         \A k \in DOMAIN pairs : \A r \in Range(pairs[k].rows) : r \notin Range(report.rows)

(***************************************************************************)
(* C4.  After a run that completed successfully, a second run with the     *)
(* same inputs on the same workdir invokes neither the fetch nor the       *)
(* index-build collaborator, for every assembly file name.                 *)
(* db_exists looks for the index files with Path.with_suffix, which        *)
(* replaces the part of the prefix after its last '.', so the index of a   *)
(* key that contains a '.' is never found and is built again.              *)
(***************************************************************************)
C4_SecondRunNoFetchNoBuild ==
    run > 1 => \A k \in DOMAIN calls : calls[k].tool \notin {"fetch", "build"}

(***************************************************************************)
(* C5.  A second successful run with the same inputs on the same workdir   *)
(* and outdir, with a search tool that is a function of the query and the  *)
(* index, writes the same report as the first one.                         *)
(***************************************************************************)
C5_SecondReportIdentical ==
    (run > 1 /\ RunOk) => report = report0

(***************************************************************************)
(* C6.  Every input error (a list file that does not exist, an empty       *)
(* normalized accession or assembly list, an assembly path that does not   *)
(* exist) ends the run with an input error, and no collaborator has been   *)
(* invoked in that run.                                                    *)
(***************************************************************************)
ListFileMissing ==
    \E f \in Range(args.assembly_file) \cup Range(args.accession_file) : ~f.exists
AssemblyMissing ==
    \E p \in Range(NormAssemblies(args)) : Resolve(p) \notin ExistingPaths
InvalidInputs ==
    \/ ListFileMissing
    \/ NormAccessions(args) = <<>>
    \/ NormAssemblies(args) = <<>>
    \/ AssemblyMissing

C6_InputErrorBeforeCollaborators ==
    InvalidInputs =>
        /\ calls = <<>>
        /\ pc \in {"start", "done"}
        /\ pc = "done" => outcome = "InputError"

\* a run given an assembly path that does not exist, and nothing else
\* wrong, has ended with the input error
C6_Witness ==
    /\ pc = "done" /\ outcome = "InputError"
    /\ AssemblyMissing /\ ~ListFileMissing
    /\ Len(NormAccessions(args)) = 2 /\ Len(NormAssemblies(args)) = 2

(***************************************************************************)
(* C7.  When the fetch collaborator fails, or returns text that does not   *)
(* begin with '>' (empty text included), the run ends with a fetch error,  *)
(* that invocation is the last one of the run, no index-build and no       *)
(* search is made in the run, and the cache file of that accession is as   *)
(* it was when the run started: still absent or empty, a miss for a later  *)
(* run.                                                                    *)
(***************************************************************************)
FetchWentWrong(c) == c.tool = "fetch" /\ (~c.ok \/ ~startswith(c.out, <<">">>))

C7_FetchFailureAborts ==
    \A k \in DOMAIN calls :
        FetchWentWrong(calls[k]) =>
            /\ pc = "done" /\ outcome = "FetchError"
            /\ k = Len(calls)
            /\ \A m \in DOMAIN calls : calls[m].tool \notin {"build", "search"}
            /\ LET f == FastaName(calls[k].arg)
               IN  /\ Exists(queries, f) <=> Exists(queries0, f)
                   /\ Exists(queries, f) => queries[f] = queries0[f]
                   /\ ~NonEmptyFile(queries, f)

\* the first accession was fetched and cached, the fetch of the second one
\* returned text that is no FASTA
C7_Witness ==
    /\ pc = "done" /\ outcome = "FetchError"
    /\ Len(calls) = 2
    /\ calls[1].tool = "fetch" /\ ~FetchWentWrong(calls[1])
    /\ calls[2].tool = "fetch" /\ calls[2].ok /\ calls[2].out = <<"x">>
    /\ NonEmptyFile(queries, FastaName(calls[1].arg))

(***************************************************************************)
(* C8.  When no search ever yields a match record, the report has exactly  *)
(* |A| x |M| data rows, and the row of pair position (i, j) is its         *)
(* identity label followed by empty data fields.                           *)
(* Fails through the defect of C1: a result file of blank lines only       *)
(* holds no match record and gets no row.                                  *)
(***************************************************************************)
C8_ExactlyOnePlaceholderPerPair ==
    (RunOk /\ ~everHit) =>
        /\ Len(DataRows) = PairCount
        /\ \A pos \in PairPositions :
             DataRows[(pos[1] - 1) * Len(assemblies_paths) + pos[2]]
                 = Placeholder(pos[1], pos[2])

(***************************************************************************)
(* C9.  As claimed: when no match ever occurs, no two data rows of the     *)
(* report carry the same identity label.                                   *)
(***************************************************************************)
Distinct(s) == \A m, n \in DOMAIN s : m # n => s[m] # s[n]
Labels == [k \in DOMAIN DataRows |-> DataRows[k][1]]
ArtifactKeys == [j \in DOMAIN assemblies_paths |-> sanitize_basename(assemblies_paths[j])]

C9_UniqueLabels == (RunOk /\ ~everHit) => Distinct(Labels)

(***************************************************************************)
(* C9, amended.  When no match ever occurs, the identity labels of the     *)
(* data rows are pairwise distinct provided the accessions are pairwise    *)
(* distinct, the ArtifactKeys of the assemblies are pairwise distinct,     *)
(* and either no accession contains "_vs" or no ArtifactKey contains       *)
(* "vs_" (so that the "_vs_" of a label has one reading only).             *)
(***************************************************************************)
C9_UniqueLabelsAmended ==
    ( /\ RunOk /\ ~everHit
      /\ Distinct(accessions)
      /\ Distinct(ArtifactKeys)
      /\ \/ \A i \in DOMAIN accessions : ~Contains(accessions[i], <<"_","v","s">>)
         \/ \A j \in DOMAIN ArtifactKeys : ~Contains(ArtifactKeys[j], <<"v","s","_">>) )
    => Distinct(Labels)

\* two accessions, one of them holding "_vs", and two assemblies with
\* distinct keys: four rows
C9_Witness ==
    /\ RunOk /\ ~everHit
    /\ Len(accessions) = 2 /\ Distinct(accessions)
    /\ \E i \in DOMAIN accessions : Contains(accessions[i], <<"_","v","s">>)
    /\ Len(assemblies_paths) = 2 /\ Distinct(ArtifactKeys)
    /\ \A j \in DOMAIN ArtifactKeys : ~Contains(ArtifactKeys[j], <<"v","s","_">>)
    /\ Len(DataRows) = 4

(***************************************************************************)
(* C10.  As claimed: every row of the report, header row, match rows and   *)
(* placeholder rows, has the same number of fields, for the records of 13  *)
(* fields of the search tool's contract.                                   *)
(***************************************************************************)
UniformColumns == \A m, n \in DOMAIN report.rows : Len(report.rows[m]) = Len(report.rows[n])

C10_UniformColumns == tool.width = 13 => UniformColumns

(***************************************************************************)
(* C10, amended.  Every row of the report has the same number of fields    *)
(* when the records of the search tool have 11 fields, one per column of   *)
(* OUTFMT_COLUMNS, the layout that blast_one requests.                     *)
(***************************************************************************)
C10_UniformColumnsAmended == tool.width = Len(OUTFMT_COLUMNS) => UniformColumns

\* a report written by this run with a match row and a placeholder row
C10_Witness ==
    /\ RunOk /\ report0 = NoReport
    /\ tool.width = Len(OUTFMT_COLUMNS)
    /\ \E k \in DOMAIN pairs : Len(pairs[k].rows) = 2 /\ pairs[k].rows[1][2] # <<>>
    /\ \E k \in DOMAIN pairs : pairs[k].rows = <<Placeholder(pairs[k].i, pairs[k].j)>>

(***************************************************************************)
(* C11.  The data rows of the report are grouped by pair position, the     *)
(* accession as outer index and the assembly as inner index, both in       *)
(* normalized input order: the k-th group is the one of the k-th position  *)
(* of that order, the report grows at its end by the rows of the pair      *)
(* just searched, and within a pair the rows keep the order of the lines   *)
(* of the pair's result file.                                              *)
(***************************************************************************)
PairAt(k) ==
    [i |-> ((k - 1) \div Len(assemblies_paths)) + 1,
     j |-> ((k - 1) % Len(assemblies_paths)) + 1]
GroupsOf(ps) == Flatten([k \in DOMAIN ps |-> ps[k].rows])
RowsGrouped ==
    /\ \A k \in DOMAIN pairs : pairs[k].i = PairAt(k).i /\ pairs[k].j = PairAt(k).j
    /\ DataRows = GroupsOf(pairs)
    /\ \A k \in DOMAIN pairs : \A r \in Range(pairs[k].rows) :
         r[1] = IdentityLabel(pairs[k].i, pairs[k].j)
NonBlankLines(text) == SelectSeq(splitlines(text), LAMBDA l : strip(l) # <<>>)
\* the fields of a pair's rows after the label are the lines of its result
\* file, in file order
InFileOrder(p) ==
    p.text # <<>> =>
        [m \in DOMAIN p.rows |-> join(Tail(p.rows[m]), <<TAB>>)] = NonBlankLines(p.text)

C11_RowOrder ==
    ReportOpened => (RowsGrouped /\ \A k \in DOMAIN pairs : InFileOrder(pairs[k]))

\* four pairs aggregated, the first one with two match rows in file order
C11_Witness ==
    /\ RunOk /\ Len(pairs) = 4
    /\ Len(pairs[1].rows) = 2
    /\ pairs[1].rows[1][2] = <<"p">> /\ pairs[1].rows[2][2] = <<"q">>
    /\ Len(DataRows) >= 5

(***************************************************************************)
(* C12.  The ArtifactKey depends on the final path component only: two     *)
(* assemblies of the list with the same file name, whatever their          *)
(* directories, get the same ArtifactKey and, for every accession, the     *)
(* same identity label; and the run does not fail on that account: it      *)
(* ends in an error only when a collaborator invocation went wrong, and a  *)
(* run that completes has aggregated |A| x |M| pair row-groups.            *)
(***************************************************************************)
\* the text after the last "/" of a path
LastSlash(p) ==
    IF "/" \in Range(p)
    THEN CHOOSE k \in DOMAIN p : p[k] = "/" /\ \A m \in (k + 1)..Len(p) : p[m] # "/"
    ELSE 0
FinalComponent(p) == SubSeq(p, LastSlash(p) + 1, Len(p))
SameFileName(j1, j2) ==
    FinalComponent(assemblies_paths[j1]) = FinalComponent(assemblies_paths[j2])
CallWentWrong(c) == ~c.ok \/ FetchWentWrong(c)

C12_SameNameSameKey ==
    /\ \A j1, j2 \in DOMAIN assemblies_paths :
          (j1 < j2 /\ SameFileName(j1, j2)) =>
              /\ sanitize_basename(assemblies_paths[j1])
                    = sanitize_basename(assemblies_paths[j2])
              /\ \A i \in DOMAIN accessions :
                    Comparison(accessions[i], assemblies_paths[j1])
                        = Comparison(accessions[i], assemblies_paths[j2])
    /\ RunOk => (Len(pairs) = PairCount /\ DataRows = GroupsOf(pairs))
    /\ (pc = "done" /\ outcome \notin {"ok", "InputError"}) =>
          (calls # <<>> /\ CallWentWrong(calls[Len(calls)]))

\* two accessions and the same file name in two directories: the run has
\* completed with four row-groups, those of one accession with equal labels
C12_Witness ==
    /\ RunOk /\ Len(accessions) = 2 /\ Len(assemblies_paths) = 2
    /\ assemblies_paths[1] # assemblies_paths[2] /\ SameFileName(1, 2)
    /\ Len(pairs) = 4
    /\ \A k \in DOMAIN pairs : pairs[k].rows # <<>>
    /\ pairs[1].rows[1][1] = pairs[2].rows[1][1]
    /\ pairs[3].rows[1][1] = pairs[4].rows[1][1]

(***************************************************************************)
(* C17.  sanitize(path) is the final path component, with at most one      *)
(* trailing suffix among .fa, .fna, .fasta, .fas, optionally followed by   *)
(* .gz, removed whatever its case, and with every maximal run of           *)
(* characters outside [A-Za-z0-9._-] replaced by one '_'; so it holds      *)
(* characters of that alphabet only and no path separator.                 *)
(* The "$" of the regular expression also matches before a newline that    *)
(* ends the name: the code then removes a suffix that is not trailing.     *)
(***************************************************************************)
ClaimedSuffixes ==
    LET exts == { <<".","f","a">>, <<".","f","n","a">>, <<".","f","a","s","t","a">>,
                  <<".","f","a","s">> }
    IN  exts \cup {e \o <<".","g","z">> : e \in exts}
\* the name without its trailing suffix of the list, if it has one
WithoutTrailingSuffix(name) ==
    LET cuts == {k \in 0..Len(name) :
                    LowerStr(SubSeq(name, k + 1, Len(name))) \in ClaimedSuffixes}
    IN  IF cuts = {} THEN name
        ELSE SubSeq(name, 1, CHOOSE k \in cuts : \A m \in cuts : k <= m)
\* every maximal run of characters outside the alphabet becomes one '_'
RunsReplaced(t) ==
    LET marked == [k \in DOMAIN t |->
                      IF t[k] \in SafeChars THEN t[k]
                      ELSE IF k = 1 \/ t[k - 1] \in SafeChars THEN "_"
                      ELSE "dropped"]
    IN  SelectSeq(marked, LAMBDA c : c # "dropped")

C17_SanitizeAlgorithm ==
    san.called =>
        /\ san.asm_name = RunsReplaced(WithoutTrailingSuffix(san.name))
        /\ Range(san.asm_name) \subseteq SafeChars
        /\ "/" \notin Range(san.asm_name)

(***************************************************************************)
(* C13.  For the assembly the index loop is at, with ArtifactKey k,        *)
(* make_db_if_needed invokes the index build if and only if one of         *)
(* <k>_asm_db.nhr, <k>_asm_db.nin, <k>_asm_db.nsq is missing or empty in   *)
(* <workdir>/blastdb, for every k, keys that contain a '.' included.       *)
(* db_exists names the three files with Path.with_suffix, which replaces   *)
(* what follows the last '.' of the prefix: for such a key it looks at     *)
(* other files and the build is invoked although the index is complete.    *)
(***************************************************************************)
CompanionFiles(k) ==
    {k \o <<"_","a","s","m","_","d","b">> \o ext :
        ext \in { <<".","n","h","r">>, <<".","n","i","n">>, <<".","n","s","q">> }}
CompanionsComplete(dir, k) == \A f \in CompanionFiles(k) : NonEmptyFile(dir, f)

C13_IndexCacheHitTest ==
    pc = "build" =>
        LET asm_path == assemblies_paths[mi]
            r == make_db_if_needed(blastdb, asm_path, DbPrefix(asm_path), "ok")
        IN  r.invoked <=> ~CompanionsComplete(blastdb, sanitize_basename(asm_path))

(***************************************************************************)
(* C14.  A cache file <workdir>/queries/<accession>.fasta that exists and  *)
(* is not empty when a run starts is a hit whatever it holds: the run      *)
(* does not invoke the fetch for that accession and leaves the content as  *)
(* it is.  Over all the runs on one workdir, after a fetch of an           *)
(* accession has succeeded the fetch is not invoked for that accession     *)
(* again, in that run (a duplicated accession) or a later one, and the     *)
(* cache file keeps the text that fetch returned.                          *)
(***************************************************************************)
FetchSucceeded(c) == c.ok /\ startswith(c.out, <<">">>)

C14_FetchCacheHit ==
    /\ \A f \in DOMAIN queries0 :
          NonEmptyFile(queries0, f) =>
              /\ Exists(queries, f) /\ queries[f] = queries0[f]
              /\ \A k \in DOMAIN calls :
                    calls[k].tool = "fetch" => FastaName(calls[k].arg) # f
    /\ \A k \in DOMAIN fetchlog :
          FetchSucceeded(fetchlog[k]) =>
              /\ \A m \in (k + 1)..Len(fetchlog) : fetchlog[m].arg # fetchlog[k].arg
              /\ Exists(queries, FastaName(fetchlog[k].arg))
              /\ queries[FastaName(fetchlog[k].arg)] = fetchlog[k].out

\* a second run has completed on a workdir whose first run started with a
\* cached query that is no FASTA and fetched the other accession once
C14_Witness ==
    /\ run = 2 /\ RunOk
    /\ Len(accessions) = 2 /\ Distinct(accessions)
    /\ \E i \in DOMAIN accessions : queries[FastaName(accessions[i])] = <<"x">>
    /\ Len(fetchlog) = 1 /\ FetchSucceeded(fetchlog[1])
    /\ calls = CallsOf("search")

(***************************************************************************)
(* C15.  Once a collaborator invocation (fetch, index build or search) has *)
(* failed, it is the last invocation of the run: nothing is invoked after  *)
(* it, it is not repeated, and the run has ended in the error outcome of   *)
(* that collaborator, never in success.                                    *)
(***************************************************************************)
ErrorOf(t) ==
    CASE t = "fetch" -> "FetchError"
      [] t = "build" -> "IndexBuildError"
      [] t = "search" -> "SearchError"

C15_AbortOnFirstFailure ==
    \A k \in DOMAIN calls :
        CallWentWrong(calls[k]) =>
            /\ k = Len(calls)
            /\ pc = "done"
            /\ outcome = ErrorOf(calls[k].tool)
            /\ outcome # "ok"

\* fetches, builds and a search have succeeded, then a search has failed
C15_Witness ==
    /\ pc = "done" /\ outcome = "SearchError"
    /\ Len(CallsOf("fetch")) >= 1 /\ Len(CallsOf("build")) >= 1
    /\ Len(CallsOf("search")) = 2
    /\ ~calls[Len(calls)].ok /\ calls[Len(calls)].tool = "search"
    /\ \A k \in 1..(Len(calls) - 1) : ~CallWentWrong(calls[k])

(***************************************************************************)
(* C16.  In a run that completes successfully the search is invoked once   *)
(* per pair position, |A| x |M| times in all, accession outer and          *)
(* assembly inner, duplicates included, and the invocation of pair (i, j)  *)
(* is given the cache file of A[i] and the index prefix                    *)
(* <sanitize(M[j])>_asm_db.  While the run goes on, the invocations made   *)
(* so far are the first ones of that order.                                *)
(***************************************************************************)
SearchOfPair(c, i, j) ==
    /\ c.arg = accessions[i] \o <<".","f","a","s","t","a">>
    /\ c.db = sanitize_basename(assemblies_paths[j]) \o <<"_","a","s","m","_","d","b">>

C16_OneSearchPerPair ==
    LET searches == CallsOf("search")
    IN  /\ Len(searches) <= PairCount
        /\ \A k \in DOMAIN searches :
              SearchOfPair(searches[k], PairAt(k).i, PairAt(k).j)
        /\ RunOk => Len(searches) = PairCount

\* a completed run with a duplicated accession and two assemblies: four
\* searches
C16_Witness ==
    /\ RunOk
    /\ Len(accessions) = 2 /\ accessions[1] = accessions[2]
    /\ Len(assemblies_paths) = 2
    /\ sanitize_basename(assemblies_paths[1]) # sanitize_basename(assemblies_paths[2])
    /\ Len(CallsOf("search")) = 4
    /\ \A k \in DOMAIN calls : calls[k].tool = "search" => calls[k].ok

(***************************************************************************)
(* C18.  In a run that starts from an empty workdir and completes, the     *)
(* index given to the search of every pair (A[i], M[j]) was built from     *)
(* the assembly M[j] itself, also when two assemblies of the list share    *)
(* an ArtifactKey.                                                         *)
(* Two assemblies with one key share one index prefix: the index loop      *)
(* finds the index of the first one and builds nothing for the second      *)
(* (or, for a key with a '.', builds over it), so the searches of one of   *)
(* them are given the index of the other.                                  *)
(***************************************************************************)
StartedEmpty == run = 1 /\ queries0 = NoFiles /\ report0 = NoReport

C18_IndexBuiltFromOwnAssembly ==
    (RunOk /\ StartedEmpty) =>
        \A k \in DOMAIN pairs :
            \A f \in DOMAIN pairs[k].index :
                pairs[k].index[f] = assemblies_paths[pairs[k].j]

(***************************************************************************)
(* C19.  A run that aborts with an input error, a fetch error or an        *)
(* index-build error leaves the report as it was, the report being         *)
(* neither truncated nor rewritten before the first search invocation of   *)
(* the run.                                                                *)
(* The runs that abort leave the report alone, but the report is opened    *)
(* for writing, which truncates it, when the index loop has ended and      *)
(* before the first search is invoked: the defect of C3.                   *)
(***************************************************************************)
AbortedBeforeSearch ==
    pc = "done" /\ outcome \in {"InputError", "FetchError", "IndexBuildError"}
NoSearchYet == pc # "done" /\ CallsOf("search") = <<>>

====
